---------------------------- MODULE Spec2Model ----------------------------
(***************************************************************************)
(* A model of persona_generator.py: a single-shot batch program that       *)
(* reads a Reddit profile URL, fetches the user's newest submissions and   *)
(* comments, builds a length-capped prompt, asks a completion API for a    *)
(* persona and writes the answer to <username>_persona.txt.                *)
(*                                                                         *)
(* Text is modelled by TLA+ strings (\o, Len and SubSeq act on them as on  *)
(* Python's str).  An optional value (Python's None or a str) is the       *)
(* empty tuple or a one-element tuple holding the string.                  *)
(***************************************************************************)
EXTENDS Integers, Sequences, FiniteSets, TLC

-----------------------------------------------------------------------------
(* Optional values and Python truthiness *)

None == <<>>

Some(s) == <<s>>

\* Python's truth value of an Optional[str]: None and "" are falsy.
Truthy(v) == v # None /\ v[1] # ""

-----------------------------------------------------------------------------
(* Strings *)

Char(s, i) == SubSeq(s, i, i)

RECURSIVE Rep(_, _)
\* s repeated n times.
Rep(s, n) ==
    IF n <= 0 THEN ""
    ELSE LET h == Rep(s, n \div 2)
         IN  IF n % 2 = 0 THEN h \o h ELSE h \o h \o s

IsSpace(c) == c \in {" ", "\t", "\n", "\r"}

RECURSIVE LStrip(_)
LStrip(s) ==
    IF Len(s) > 0 /\ IsSpace(Char(s, 1)) THEN LStrip(SubSeq(s, 2, Len(s))) ELSE s

RECURSIVE RStrip(_)
RStrip(s) ==
    IF Len(s) > 0 /\ IsSpace(Char(s, Len(s)))
    THEN RStrip(SubSeq(s, 1, Len(s) - 1))
    ELSE s

\* str.strip()
Strip(s) == LStrip(RStrip(s))

-----------------------------------------------------------------------------
(* extract_username: re.search(r'reddit\.com\/user\/([^\/]+)', profile_url) *)

\* The literal part of the pattern: every character of it is escaped or
\* ordinary, so it matches itself only.
UserLiteral == "reddit.com/user/"

\* The literal with the dot left unescaped would match any character there.
LiteralAtAnyDot(s, i) ==
    /\ i + Len(UserLiteral) - 1 <= Len(s)
    /\ SubSeq(s, i, i + 5) = "reddit"
    /\ SubSeq(s, i + 7, i + Len(UserLiteral) - 1) = "com/user/"

LiteralAt(s, i) ==
    /\ i + Len(UserLiteral) - 1 <= Len(s)
    /\ SubSeq(s, i, i + Len(UserLiteral) - 1) = UserLiteral

RECURSIVE ClassRunEnd(_, _)
\* [^\/]+ is greedy: the index of the last character of the longest run of
\* non-slash characters that starts at j (j - 1 when the run is empty).
ClassRunEnd(s, j) ==
    IF j > Len(s) \/ Char(s, j) = "/" THEN j - 1 ELSE ClassRunEnd(s, j + 1)

RECURSIVE Search(_, _)
\* re.search tries the start positions from left to right and returns the
\* first match's group 1.
Search(s, i) ==
    IF i > Len(s) THEN None
    ELSE LET j == i + Len(UserLiteral)
             k == ClassRunEnd(s, j)
         IN  IF LiteralAt(s, i) /\ k >= j
             THEN Some(SubSeq(s, j, k))
             ELSE Search(s, i + 1)

extract_username(profile_url) == Search(profile_url, 1)

-----------------------------------------------------------------------------
(* Bounds of the model *)

\* Items that exist upstream beyond the requested limit.
Extra == 1

\* The largest limit get_user_data is called with when it is checked alone.
MaxLimit == 3

\* A fetch may fail after this many items of a listing were consumed.
MaxErrAt == 2

(* Program constants *)

\* get_user_data(username, limit=50)
DefaultLimit == 50

\* max_input_length = 15000
max_input_length == 15000

Min(a, b) == IF a <= b THEN a ELSE b

-----------------------------------------------------------------------------
(* The platform's objects, as PRAW hands them to the program *)

RedditBase == "https://www.reddit.com"

LinkPlaceholder == "[Link Post]"

\* The i-th newest submission of the user.  Odd ones are self posts, even
\* ones link posts (whose selftext is empty on the platform).  The newest
\* carries a body of bodyLen characters, the others a short one.
Submission(i, bodyLen) ==
    [id        |-> "s" \o ToString(i),
     permalink |-> "/r/test/comments/s" \o ToString(i) \o "/t/",
     title     |-> "Post " \o ToString(i),
     is_self   |-> i % 2 = 1,
     selftext  |-> IF i % 2 = 1
                   THEN (IF i = 1 THEN Rep("x", bodyLen) ELSE "self " \o ToString(i))
                   ELSE ""]

Comment(i, bodyLen) ==
    [id        |-> "c" \o ToString(i),
     permalink |-> "/r/test/comments/s1/t/c" \o ToString(i) \o "/",
     body      |-> IF i = 1 THEN Rep("y", bodyLen) ELSE "reply " \o ToString(i)]

UpstreamSubmissions(n, bodyLen) == [i \in 1..n |-> Submission(i, bodyLen)]

UpstreamComments(n, bodyLen) == [i \in 1..n |-> Comment(i, bodyLen)]

\* redditor.submissions.new(limit=lim) / redditor.comments.new(limit=lim):
\* the listing yields the newest items, at most lim of them.
ListingNew(upstream, lim) == SubSeq(upstream, 1, Min(lim, Len(upstream)))

\* The dict appended to posts for one submission.
PostOf(submission) ==
    [id       |-> submission.id,
     url      |-> RedditBase \o submission.permalink,
     title    |-> submission.title,
     selftext |-> IF submission.is_self THEN submission.selftext
                  ELSE LinkPlaceholder]

\* The dict appended to comments for one comment.
CommentOf(comment) ==
    [id   |-> comment.id,
     url  |-> RedditBase \o comment.permalink,
     body |-> comment.body]

-----------------------------------------------------------------------------
(* generate_persona: the prompt *)

\* The fixed instructional template (its text up to the data marker).
prompt ==
    "Based on the following Reddit posts and comments, generate a detailed user persona.\n"
    \o "    The persona should include categories such as:\n"
    \o "    - **Interests**: What are their hobbies, passions, and topics they engage with?\n"
    \o "    - **Values**: What principles or beliefs seem important to them?\n"
    \o "    - **Tone/Communication Style**: How do they typically express themselves (e.g., formal, casual, humorous, sarcastic, critical)?\n"
    \o "    - **Personality Traits**: What adjectives describe their general demeanor (e.g., empathetic, analytical, cynical, enthusiastic)?\n"
    \o "    - **Potential Political Views**: Are there any indications of political leanings or social stances?\n"
    \o "\n"
    \o "    For EACH characteristic identified, you MUST cite the exact Reddit post or comment content that directly supports your inference.\n"
    \o "    Cite by including the full text of the supporting content, clearly marked with its type ([POST] or [COMMENT]) and its unique URL.\n"
    \o "\n"
    \o "    Example of desired output format:\n"
    \o "    **Interests:**\n"
    \o "    - Enjoys video games, especially RPGs. [Cite: [POST] URL: https://www.reddit.com/r/gaming/comments/... Title: My favorite RPGs Body: I spend hours playing The Witcher 3 and Elden Ring...]\n"
    \o "    - Has a strong interest in technology and AI. [Cite: [COMMENT] URL: https://www.reddit.com/r/technology/comments/... Body: AI advancements are truly fascinating, especially in natural language processing.]\n"
    \o "\n"
    \o "    **Values:**\n"
    \o "    - Values intellectual honesty and critical thinking. [Cite: [COMMENT] URL: https://www.reddit.com/r/science/comments/... Body: It's important to base opinions on scientific evidence, not just anecdotal experiences.]\n"
    \o "\n"
    \o "    --- Reddit User Data for Analysis ---\n"
    \o "    "

\* One block of the serialization per post.
PostBlock(p) ==
    "[POST] URL: " \o p.url \o "\n"
    \o "Title: " \o p.title \o "\n"
    \o "Body: " \o p.selftext \o "\n\n"

\* One block of the serialization per comment.
CommentBlock(c) ==
    "[COMMENT] URL: " \o c.url \o "\n"
    \o "Body: " \o c.body \o "\n\n"

RECURSIVE JoinPosts(_, _)
\* The first loop: content_for_llm += block, for the first n posts in order.
JoinPosts(ps, n) ==
    IF n = 0 THEN "" ELSE JoinPosts(ps, n - 1) \o PostBlock(ps[n])

RECURSIVE JoinComments(_, _)
\* The second loop: content_for_llm += block, for the first n comments.
JoinComments(cs, n) ==
    IF n = 0 THEN "" ELSE JoinComments(cs, n - 1) \o CommentBlock(cs[n])

\* content_for_llm before the truncation: every post, then every comment.
Serialize(ps, cs) == JoinPosts(ps, Len(ps)) \o JoinComments(cs, Len(cs))

\* A truncation whose comparison is off by one: it keeps one character more.
TruncateOffByOne(content) ==
    IF Len(content) > max_input_length + 1
    THEN SubSeq(content, 1, max_input_length + 1)
    ELSE content

\* content_for_llm[:max_input_length] when it is longer than that.
Truncate(content) ==
    IF Len(content) > max_input_length
    THEN SubSeq(content, 1, max_input_length)
    ELSE content

-----------------------------------------------------------------------------
(* The program's state *)

VARIABLES
    stdin,            \* the line input() will read
    env,              \* the four module-level configuration values (lines 11-14)
    files,            \* the working directory: file name -> content
    pc,               \* the position of the run
    url,              \* main: url
    username,         \* main: username
    limit,            \* get_user_data: limit
    posts,            \* get_user_data: posts
    comments,         \* get_user_data: comments
    main_posts,       \* main: posts
    main_comments,    \* main: comments
    content_for_llm,  \* generate_persona: content_for_llm
    full_prompt,      \* generate_persona: full_prompt, the request's message
    persona,          \* main: persona
    stdout,           \* the diagnostics printed so far
    calls,            \* the stages and network operations performed so far
    upstream,         \* how many items the platform held at each listing request
    exit_code,        \* the process exit status, None while running
    exit_edge         \* which statement ended the run

vars == <<stdin, env, files, pc, url, username, limit, posts, comments,
          main_posts, main_comments, content_for_llm, full_prompt, persona,
          stdout, calls, upstream, exit_code, exit_edge>>

RedditKeys == {"REDDIT_CLIENT_ID", "REDDIT_CLIENT_SECRET", "REDDIT_USER_AGENT"}

ConfigKeys == RedditKeys \cup {"OPENAI_API_KEY"}

\* os.getenv gives None for an unset variable, else its (possibly empty) value.
EnvValues == {None, Some(""), Some("set")}

\* The lines typed at the prompt in a whole run.
Lines ==
    {"https://www.reddit.com/user/kojied/",
     "  https://www.reddit.com/user/spez ",
     "https://www.reddit.com/u/kojied/",
     "https://example.com",
     ""}

\* What the working directory holds before the run.
InitialFiles == {<<>>, ("kojied_persona.txt" :> "OLD PERSONA")}

\* What the completion API answers in choices[0].message.content.
Responses == {None, Some(""), Some("PERSONA_TEXT"), Some("Interests:\n- chess [Cite: ...]\n")}

\* Body lengths that put a single block exactly at the truncation limit.
PostFill == max_input_length - Len(PostBlock(PostOf(Submission(1, 0))))

CommentFill == max_input_length - Len(CommentBlock(CommentOf(Comment(1, 0))))

SubmissionBodyLens == {0, 2, PostFill, PostFill + 1}

CommentBodyLens == {2, CommentFill, CommentFill + 1}

\* How many items exist upstream when lim are asked for.
UpstreamCounts(lim) == {0, 1, lim, lim + Extra}

\* The points at which iterating a listing of n items may raise.
ErrorPoints(n) == {k \in 0..n : k <= MaxErrAt}

TypeOK ==
    /\ env \in [ConfigKeys -> EnvValues]
    /\ pc \in {"main", "get_user_data", "fetch_submissions", "fetch_comments",
               "fetch_except", "check_data", "generate_persona", "completion",
               "save", "exited"}
    /\ limit \in Nat
    /\ exit_code \in {None, <<0>>, <<1>>}

InitLocals ==
    /\ pc = "main"
    /\ url = ""
    /\ username = None
    /\ limit = DefaultLimit
    /\ posts = <<>>
    /\ comments = <<>>
    /\ main_posts = <<>>
    /\ main_comments = <<>>
    /\ content_for_llm = ""
    /\ full_prompt = ""
    /\ persona = None
    /\ stdout = <<>>
    /\ calls = <<>>
    /\ upstream = [submissions |-> 0, comments |-> 0]
    /\ exit_code = None
    /\ exit_edge = "running"

Init ==
    /\ stdin \in Lines
    /\ env \in [ConfigKeys -> EnvValues]
    /\ files \in InitialFiles
    /\ InitLocals

-----------------------------------------------------------------------------
(* Leaving the process *)

\* The no-data abort ends with a failure status.
ExitStatusNoDataFails ==
    [bad_url          |-> 1,
     reddit_config    |-> 1,
     no_data          |-> 1,
     openai_config    |-> 1,
     openai_error     |-> 1,
     unexpected_error |-> 1,
     save_error       |-> 1,
     end_saved        |-> 0,
     end_failed       |-> 0]

\* Every failing statement has a status of its own.
ExitStatusDistinct ==
    [bad_url          |-> 1,
     reddit_config    |-> 2,
     no_data          |-> 0,
     openai_config    |-> 3,
     openai_error     |-> 4,
     unexpected_error |-> 5,
     save_error       |-> 6,
     end_saved        |-> 0,
     end_failed       |-> 0]

\* The status each terminating statement gives the process: the argument of
\* its sys.exit, and 0 where main returns.
ExitStatus ==
    [bad_url          |-> 1,    \* line 175
     reddit_config    |-> 1,    \* line 32
     no_data          |-> 0,    \* line 182
     openai_config    |-> 1,    \* line 77
     openai_error     |-> 1,    \* line 145
     unexpected_error |-> 1,    \* line 148
     save_error       |-> 1,    \* line 162
     end_saved        |-> 0,    \* main returns after save_persona
     end_failed       |-> 0]    \* main returns after line 190

\* The process ends at the statement named edge, after printing msgs.
Exit(edge, msgs) ==
    /\ pc' = "exited"
    /\ exit_code' = Some(ExitStatus[edge])
    /\ exit_edge' = edge
    /\ stdout' = stdout \o msgs

-----------------------------------------------------------------------------
(* main, lines 169-177 *)

ReadUrl ==
    /\ pc = "main"
    /\ url' = Strip(stdin)
    /\ username' = extract_username(Strip(stdin))
    /\ calls' = Append(calls, "extract")
    /\ IF ~Truthy(extract_username(Strip(stdin)))
       THEN Exit("bad_url", <<"banner", "invalid_url">>)
       ELSE /\ pc' = "get_user_data"
            /\ stdout' = stdout \o <<"banner", "processing">>
            /\ UNCHANGED <<exit_code, exit_edge>>
    /\ UNCHANGED <<stdin, env, files, limit, posts, comments, main_posts,
                   main_comments, content_for_llm, full_prompt, persona,
                   upstream>>

-----------------------------------------------------------------------------
(* get_user_data *)

\* any(...) in the place of all(...).
RedditConfiguredAny == \E k \in RedditKeys : Truthy(env[k])

\* all([REDDIT_CLIENT_ID, REDDIT_CLIENT_SECRET, REDDIT_USER_AGENT])
RedditConfigured == \A k \in RedditKeys : Truthy(env[k])

\* Lines 30-43: the credential check, then the empty result lists.
CheckCredentials ==
    /\ pc = "get_user_data"
    /\ IF ~RedditConfigured
       THEN /\ Exit("reddit_config", <<"reddit_credentials_missing">>)
            /\ UNCHANGED <<posts, comments>>
       ELSE /\ posts' = <<>>
            /\ comments' = <<>>
            /\ pc' = "fetch_submissions"
            /\ stdout' = Append(stdout, "attempting")
            /\ UNCHANGED <<exit_code, exit_edge>>
    /\ UNCHANGED <<stdin, env, files, url, username, limit, main_posts,
                   main_comments, content_for_llm, full_prompt, persona, calls,
                   upstream>>

\* The submissions loop asks for the listing without the limit.
FetchSubmissionsNoLimit ==
    /\ pc = "fetch_submissions"
    /\ calls' = Append(calls, "submissions")
    /\ \E n \in UpstreamCounts(limit), b \in SubmissionBodyLens :
         LET listing == UpstreamSubmissions(n, b)
         IN  /\ upstream' = [upstream EXCEPT !.submissions = n]
             /\ posts' = [i \in 1..Len(listing) |-> PostOf(listing[i])]
             /\ pc' = "fetch_comments"
             /\ stdout' = Append(stdout, "fetched_posts")
    /\ UNCHANGED <<stdin, env, files, url, username, limit, comments,
                   main_posts, main_comments, content_for_llm, full_prompt,
                   persona, exit_code, exit_edge>>

\* Lines 44-53: the loop over redditor.submissions.new(limit=limit).  The
\* listing is one request; iterating it either yields every item or raises
\* after k of them were appended.
FetchSubmissions ==
    /\ pc = "fetch_submissions"
    /\ calls' = Append(calls, "submissions")
    /\ \E n \in UpstreamCounts(limit), b \in SubmissionBodyLens :
         LET listing == ListingNew(UpstreamSubmissions(n, b), limit)
         IN  /\ upstream' = [upstream EXCEPT !.submissions = n]
             /\ \/ /\ posts' = [i \in 1..Len(listing) |-> PostOf(listing[i])]
                   /\ pc' = "fetch_comments"
                   /\ stdout' = Append(stdout, "fetched_posts")
                \/ \E k \in ErrorPoints(Len(listing)) :
                     /\ posts' = [i \in 1..k |-> PostOf(listing[i])]
                     /\ pc' = "fetch_except"
                     /\ UNCHANGED stdout
    /\ UNCHANGED <<stdin, env, files, url, username, limit, comments,
                   main_posts, main_comments, content_for_llm, full_prompt,
                   persona, exit_code, exit_edge>>

\* Lines 55-62 and 69: the loop over redditor.comments.new(limit=limit), and
\* the return of both lists when it ends.
FetchComments ==
    /\ pc = "fetch_comments"
    /\ calls' = Append(calls, "comments")
    /\ \E n \in UpstreamCounts(limit), b \in CommentBodyLens :
         LET listing == ListingNew(UpstreamComments(n, b), limit)
         IN  /\ upstream' = [upstream EXCEPT !.comments = n]
             /\ \/ /\ comments' = [i \in 1..Len(listing) |-> CommentOf(listing[i])]
                   /\ main_posts' = posts
                   /\ main_comments' = comments'
                   /\ pc' = "check_data"
                   /\ stdout' = Append(stdout, "fetched_comments")
                \/ \E k \in ErrorPoints(Len(listing)) :
                     /\ comments' = [i \in 1..k |-> CommentOf(listing[i])]
                     /\ pc' = "fetch_except"
                     /\ UNCHANGED <<main_posts, main_comments, stdout>>
    /\ UNCHANGED <<stdin, env, files, url, username, limit, posts,
                   content_for_llm, full_prompt, persona, exit_code, exit_edge>>

\* The handler hands back what was collected before the error.
FetchExceptSalvage ==
    /\ pc = "fetch_except"
    /\ main_posts' = posts
    /\ main_comments' = comments
    /\ pc' = "check_data"
    /\ stdout' = stdout \o <<"fetch_error", "fetch_hint">>
    /\ UNCHANGED <<stdin, env, files, url, username, limit, posts, comments,
                   content_for_llm, full_prompt, persona, calls, upstream,
                   exit_code, exit_edge>>

\* Lines 64-67: except Exception: print twice, return [], [].
FetchExcept ==
    /\ pc = "fetch_except"
    /\ main_posts' = <<>>
    /\ main_comments' = <<>>
    /\ pc' = "check_data"
    /\ stdout' = stdout \o <<"fetch_error", "fetch_hint">>
    /\ UNCHANGED <<stdin, env, files, url, username, limit, posts, comments,
                   content_for_llm, full_prompt, persona, calls, upstream,
                   exit_code, exit_edge>>

-----------------------------------------------------------------------------
(* main, lines 180-184 *)

\* main goes on to the generation whatever the fetch returned.
CheckDataNoAbort ==
    /\ pc = "check_data"
    /\ pc' = "generate_persona"
    /\ stdout' = Append(stdout, "generating")
    /\ UNCHANGED <<stdin, env, files, url, username, limit, posts, comments,
                   main_posts, main_comments, content_for_llm, full_prompt,
                   persona, calls, upstream, exit_code, exit_edge>>

CheckData ==
    /\ pc = "check_data"
    /\ IF main_posts = <<>> /\ main_comments = <<>>
       THEN Exit("no_data", <<"no_data">>)
       ELSE /\ pc' = "generate_persona"
            /\ stdout' = Append(stdout, "generating")
            /\ UNCHANGED <<exit_code, exit_edge>>
    /\ UNCHANGED <<stdin, env, files, url, username, limit, posts, comments,
                   main_posts, main_comments, content_for_llm, full_prompt,
                   persona, calls, upstream>>

-----------------------------------------------------------------------------
(* generate_persona *)

\* Lines 75-127: the key check, the serialization of every post and comment,
\* the truncation with its warning, and the full prompt.
BuildPrompt ==
    /\ pc = "generate_persona"
    /\ IF ~Truthy(env["OPENAI_API_KEY"])
       THEN /\ Exit("openai_config", <<"openai_key_missing">>)
            /\ UNCHANGED <<content_for_llm, full_prompt>>
       ELSE LET content == Serialize(main_posts, main_comments)
            IN  /\ content_for_llm' = Truncate(content)
                /\ full_prompt' = prompt \o Truncate(content)
                /\ stdout' = IF Len(content) > max_input_length
                             THEN Append(stdout, "truncation_warning")
                             ELSE stdout
                /\ pc' = "completion"
                /\ UNCHANGED <<exit_code, exit_edge>>
    /\ UNCHANGED <<stdin, env, files, url, username, limit, posts, comments,
                   main_posts, main_comments, persona, calls, upstream>>

\* Lines 129-148: the one completion request.  It returns the content of the
\* first choice, or raises: an OpenAIError or any other exception ends the
\* process with status 1.
Completion ==
    /\ pc = "completion"
    /\ calls' = Append(calls, "completion")
    /\ \/ \E r \in Responses :
            /\ persona' = r
            /\ pc' = "save"
            /\ UNCHANGED <<stdout, exit_code, exit_edge>>
       \/ /\ Exit("openai_error", <<"openai_error", "openai_hint">>)
          /\ UNCHANGED persona
       \/ /\ Exit("unexpected_error", <<"unexpected_error">>)
          /\ UNCHANGED persona
    /\ UNCHANGED <<stdin, env, files, url, username, limit, posts, comments,
                   main_posts, main_comments, content_for_llm, full_prompt,
                   upstream>>

-----------------------------------------------------------------------------
(* save_persona and the end of main *)

\* The file name without its _persona part.
FilenameNoSuffix(name) == name \o ".txt"

\* filename = f"{username}_persona.txt"
Filename(name) == name \o "_persona.txt"

\* The directory after file fn was given the content text.
WriteFile(fs, fn, text) ==
    [f \in DOMAIN fs \cup {fn} |-> IF f = fn THEN text ELSE fs[f]]

\* The file is written whatever generate_persona returned.
SavePersonaAlways ==
    /\ pc = "save"
    /\ calls' = Append(calls, "write")
    /\ files' = WriteFile(files, Filename(username[1]),
                          IF persona = None THEN "" ELSE persona[1])
    /\ Exit("end_saved", <<"saved">>)
    /\ UNCHANGED <<stdin, env, url, username, limit, posts, comments,
                   main_posts, main_comments, content_for_llm, full_prompt,
                   persona, upstream>>

\* Lines 187-190 with save_persona (151-162).  A truthy persona is written
\* with open(filename, "w"): the write succeeds, or open raises IOError (the
\* file is untouched), or the write raises IOError after open emptied the
\* file (a prefix of the text is left).  A falsy persona is only reported.
\* main then returns and the process ends with status 0.
SavePersona ==
    /\ pc = "save"
    /\ IF Truthy(persona)
       THEN LET fn == Filename(username[1])
                text == persona[1]
            IN  /\ calls' = Append(calls, "write")
                /\ \/ /\ files' = WriteFile(files, fn, text)
                      /\ Exit("end_saved", <<"saved">>)
                   \/ /\ files' = files
                      /\ Exit("save_error", <<"save_error">>)
                   \/ \E k \in {0, Len(text) \div 2} :
                        /\ files' = WriteFile(files, fn, SubSeq(text, 1, k))
                        /\ Exit("save_error", <<"save_error">>)
       ELSE /\ Exit("end_failed", <<"failed_to_generate">>)
            /\ UNCHANGED <<files, calls>>
    /\ UNCHANGED <<stdin, env, url, username, limit, posts, comments,
                   main_posts, main_comments, content_for_llm, full_prompt,
                   persona, upstream>>

-----------------------------------------------------------------------------
(* The whole program *)

Next ==
    \/ ReadUrl
    \/ CheckCredentials
    \/ FetchSubmissions
    \/ FetchComments
    \/ FetchExcept
    \/ CheckData
    \/ BuildPrompt
    \/ Completion
    \/ SavePersona

Spec == Init /\ [][Next]_vars

-----------------------------------------------------------------------------
(* get_user_data alone, called with any limit *)

InitFetch ==
    /\ stdin = "https://www.reddit.com/user/kojied/"
    /\ env \in [ConfigKeys -> EnvValues]
    /\ files = <<>>
    /\ pc = "get_user_data"
    /\ url = "https://www.reddit.com/user/kojied/"
    /\ username = Some("kojied")
    /\ limit \in 0..MaxLimit
    /\ posts = <<>>
    /\ comments = <<>>
    /\ main_posts = <<>>
    /\ main_comments = <<>>
    /\ content_for_llm = ""
    /\ full_prompt = ""
    /\ persona = None
    /\ stdout = <<>>
    /\ calls = <<>>
    /\ upstream = [submissions |-> 0, comments |-> 0]
    /\ exit_code = None
    /\ exit_edge = "running"

NextFetch ==
    \/ CheckCredentials
    \/ FetchSubmissions
    \/ FetchComments
    \/ FetchExcept

SpecFetch == InitFetch /\ [][NextFetch]_vars

-----------------------------------------------------------------------------
(* extract_username alone, on lines assembled from fragments *)

\* The longest line, in fragments.
MaxFragments == 3

Fragments ==
    {"reddit.com/user/", "/reddit.com/user/", "redditxcom/user/",
     "Reddit.com/user/", "/", "bob", "a?b", " "}

RECURSIVE Concat(_)
Concat(t) == IF t = <<>> THEN "" ELSE Head(t) \o Concat(Tail(t))

FragmentLines ==
    {Concat(t) : t \in UNION {[1..n -> Fragments] : n \in 0..MaxFragments}}

InitExtract ==
    /\ stdin \in FragmentLines
    /\ env = [k \in ConfigKeys |-> Some("set")]
    /\ files = <<>>
    /\ InitLocals

NextExtract == ReadUrl

SpecExtract == InitExtract /\ [][NextExtract]_vars

-----------------------------------------------------------------------------
(* Vocabulary of the properties *)

Has(seq, x) == \E i \in DOMAIN seq : seq[i] = x

Count(seq, x) == Cardinality({i \in DOMAIN seq : seq[i] = x})

NetworkOps == {"submissions", "comments", "completion"}

NetworkCalls == Cardinality({i \in DOMAIN calls : calls[i] \in NetworkOps})

\* A configuration value the program finds missing: unset, or set to "".
Falsy(k) == env[k] = None \/ env[k] = Some("")

StageOrder == <<"extract", "submissions", "comments", "completion", "write">>

-----------------------------------------------------------------------------
(* C1 *)

\* C1, as stated: in no reachable state is one of the four configuration
\* values missing while a network call (submissions fetch, comments fetch or
\* completion request) has been attempted.
C1_NoNetworkCallWhenAnyConfigMissing ==
    (\E k \in ConfigKeys : env[k] = None) => NetworkCalls = 0

\* C1, amended: with a Reddit credential missing no network call is ever
\* attempted and the run stops at the credential check; with the OpenAI key
\* missing the two fetches may have been performed, but the completion
\* request is never attempted and the run stops at the key check.
C1_ConfigCheckedPerStage ==
    /\ (\E k \in RedditKeys : Falsy(k)) =>
          /\ NetworkCalls = 0
          /\ pc \in {"main", "get_user_data", "exited"}
          /\ exit_code \in {None, Some(1)}
    /\ Falsy("OPENAI_API_KEY") =>
          /\ ~Has(calls, "completion")
          /\ pc \notin {"completion", "save"}
          /\ exit_edge \notin {"end_saved", "end_failed", "openai_error",
                               "unexpected_error", "save_error"}

\* A run with only the OpenAI key missing that fetched both listings and
\* then stopped at the key check.
C1_Witness ==
    /\ env["OPENAI_API_KEY"] = None
    /\ \A k \in RedditKeys : env[k] = Some("set")
    /\ Has(calls, "submissions") /\ Has(calls, "comments")
    /\ pc = "exited" /\ exit_edge = "openai_config" /\ exit_code = Some(1)

-----------------------------------------------------------------------------
(* C2 *)

\* C2: once the fetch has raised and its handler has run, get_user_data has
\* returned two empty lists whatever was collected before the error; the run
\* can only print the no-data message and exit with status 0; no completion
\* request is issued and no file is written.
C2_FetchErrorDegradesToNoData ==
    Has(stdout, "fetch_error") =>
        /\ main_posts = <<>> /\ main_comments = <<>>
        /\ pc \in {"check_data", "exited"}
        /\ pc = "exited" =>
              /\ exit_code = Some(0)
              /\ exit_edge = "no_data"
              /\ Has(stdout, "no_data")
        /\ ~Has(calls, "completion")
        /\ ~Has(calls, "write")
        /\ files \in InitialFiles

\* The comments fetch raised after posts and a comment had been collected,
\* and the run ended with the no-data message.
C2_Witness ==
    /\ Has(stdout, "fetch_error")
    /\ Has(calls, "comments")
    /\ Len(posts) > 0 /\ Len(comments) > 0
    /\ pc = "exited" /\ exit_code = Some(0)

-----------------------------------------------------------------------------
(* C3 *)

\* C3, as stated: a finished run has status 0 on the no-data abort, and a
\* non-zero status whenever a required configuration value is missing and on
\* any fatal completion, generation or file-write error.
C3_ExitStatusClassification ==
    pc = "exited" =>
        /\ Has(stdout, "no_data") => exit_code = Some(0)
        /\ (\E k \in ConfigKeys : env[k] = None) => exit_code # Some(0)
        /\ (\E m \in {"openai_error", "unexpected_error", "save_error"} :
               Has(stdout, m)) => exit_code # Some(0)

\* C3, amended: a finished run has status 0 on the no-data abort; a non-zero
\* status whenever a Reddit credential is missing, whenever the OpenAI key is
\* missing and the fetch returned at least one item, and on any fatal
\* completion, generation or file-write error.  A run with the OpenAI key
\* missing whose fetch returned nothing ends with status 0.
C3_ExitStatusPerStage ==
    pc = "exited" =>
        /\ Has(stdout, "no_data") => exit_code = Some(0)
        /\ (\E k \in RedditKeys : Falsy(k)) => exit_code = Some(1)
        /\ (Falsy("OPENAI_API_KEY")
              /\ (main_posts # <<>> \/ main_comments # <<>>)) =>
              exit_code = Some(1)
        /\ (Falsy("OPENAI_API_KEY") /\ Has(calls, "comments")
              /\ main_posts = <<>> /\ main_comments = <<>>) =>
              exit_code = Some(0)
        /\ (\E m \in {"openai_error", "unexpected_error", "save_error"} :
               Has(stdout, m)) => exit_code = Some(1)

\* The OpenAI key is unset, both listings came back empty, and the run ended
\* with the no-data message and status 0.
C3_Witness ==
    /\ env["OPENAI_API_KEY"] = None
    /\ Has(stdout, "fetched_comments")
    /\ main_posts = <<>> /\ main_comments = <<>>
    /\ pc = "exited" /\ exit_code = Some(0) /\ Has(stdout, "no_data")

-----------------------------------------------------------------------------
(* C4 *)

\* C4: once generate_persona has built its prompt, the content appended to
\* the template is at most 15000 characters long; it is the whole
\* serialization of the posts and comments when that has at most 15000
\* characters and its first 15000 characters otherwise; and the truncation
\* warning was printed exactly when the serialization is longer than 15000.
C4_ContentCappedAtLimit ==
    full_prompt # "" =>
        LET whole == Serialize(main_posts, main_comments)
        IN  /\ Len(content_for_llm) <= 15000
            /\ IF Len(whole) <= 15000
               THEN content_for_llm = whole
               ELSE content_for_llm = SubSeq(whole, 1, 15000)
            /\ full_prompt = prompt \o content_for_llm
            /\ Has(stdout, "truncation_warning") <=> Len(whole) > 15000

\* A serialization one character over the limit was cut to the limit, with
\* the warning.
C4_Witness ==
    /\ full_prompt # ""
    /\ Len(Serialize(main_posts, main_comments)) = 15001
    /\ Len(content_for_llm) = 15000
    /\ Has(stdout, "truncation_warning")

-----------------------------------------------------------------------------
(* C5 *)

\* C5, as stated: when a run that fetched at least one item has ended after
\* the completion API returned a text, the file <username>_persona.txt holds
\* exactly that text.
C5_FileHoldsReturnedText ==
    (pc = "exited" /\ persona # None) =>
        /\ Filename(username[1]) \in DOMAIN files
        /\ files[Filename(username[1])] = persona[1]

\* C5, amended: when a run that fetched at least one item has ended after the
\* completion API returned a non-empty text and the write did not fail, the
\* file <username>_persona.txt holds exactly that text, whatever it held
\* before; it was written once, and every other file holds what it held
\* before the run.
C5_FileHoldsNonEmptyReturnedText ==
    (pc = "exited" /\ persona # None /\ persona # Some("")
       /\ ~Has(stdout, "save_error")) =>
        LET fn == username[1] \o "_persona.txt"
        IN  /\ main_posts # <<>> \/ main_comments # <<>>
            /\ fn \in DOMAIN files
            /\ files[fn] = persona[1]
            /\ Count(calls, "write") = 1
            /\ \A f \in DOMAIN files \ {fn} :
                 \E f0 \in InitialFiles : f \in DOMAIN f0 /\ files[f] = f0[f]

\* The run for kojied replaced the old content of kojied_persona.txt by the
\* returned text.
C5_Witness ==
    /\ pc = "exited" /\ exit_edge = "end_saved"
    /\ username = Some("kojied")
    /\ persona = Some("PERSONA_TEXT")
    /\ files["kojied_persona.txt"] = "PERSONA_TEXT"

-----------------------------------------------------------------------------
(* C6 *)

\* C6: the stages performed so far are always an initial part of Extract,
\* submissions fetch, comments fetch, completion request, file write (so each
\* is performed at most once and in that order); the completion request is
\* issued only after both fetches completed and returned at least one item;
\* the file is written only after the completion request returned.
C6_StagesInOrderOnce ==
    /\ Len(calls) <= Len(StageOrder)
    /\ calls = SubSeq(StageOrder, 1, Len(calls))
    /\ Has(calls, "completion") =>
          /\ Has(stdout, "fetched_posts") /\ Has(stdout, "fetched_comments")
          /\ main_posts # <<>> \/ main_comments # <<>>
    /\ Has(calls, "write") => persona # None

\* A run that went through all five stages.
C6_Witness == calls = StageOrder /\ pc = "exited"

-----------------------------------------------------------------------------
(* C7 *)

EarlyExitEdges ==
    {"bad_url", "reddit_config", "no_data", "openai_config", "openai_error",
     "unexpected_error"}

\* C7, as stated: a run that ended through an early-exit edge ended with an
\* exit status that no other early-exit edge gives.
C7_DistinctExitCodes ==
    (pc = "exited" /\ exit_edge \in EarlyExitEdges) =>
        \A e \in EarlyExitEdges \ {exit_edge} : Some(ExitStatus[e]) # exit_code

\* C7, amended: each early-exit edge leads directly to a terminal state (no
\* later stage has run and no step follows); the empty-data edge ends the
\* process with status 0 and every other early-exit edge (bad URL, missing
\* configuration, API error) with the same status 1.
C7_EarlyExitsTerminal ==
    pc = "exited" =>
        /\ ~ENABLED Next
        /\ exit_edge = "no_data" =>
              exit_code = Some(0) /\ ~Has(calls, "completion")
        /\ exit_edge \in {"bad_url", "reddit_config"} =>
              exit_code = Some(1) /\ calls = <<"extract">>
        /\ exit_edge = "openai_config" =>
              exit_code = Some(1) /\ ~Has(calls, "completion")
        /\ exit_edge \in {"openai_error", "unexpected_error"} =>
              exit_code = Some(1) /\ ~Has(calls, "write") /\ persona = None

\* A run that ended at the credential check, with status 1 like the bad-URL
\* edge.
C7_Witness ==
    /\ pc = "exited" /\ exit_edge = "reddit_config"
    /\ exit_code = Some(ExitStatus["bad_url"])
    /\ calls = <<"extract">>

-----------------------------------------------------------------------------
(* C8 *)

\* C8: whatever the limit and the number of items upstream, get_user_data
\* never holds or returns more than limit posts or more than limit comments.
C8_AtMostLimitItems ==
    /\ Len(posts) <= limit /\ Len(comments) <= limit
    /\ Len(main_posts) <= limit /\ Len(main_comments) <= limit

\* More items than the limit existed upstream in both listings and exactly
\* limit of each were returned.
C8_Witness ==
    /\ limit > 0
    /\ upstream.submissions > limit /\ upstream.comments > limit
    /\ pc = "check_data"
    /\ Len(main_posts) = limit /\ Len(main_comments) = limit

-----------------------------------------------------------------------------
(* C9 *)

\* The pattern occurs at i: the text reddit.com/user/ followed by at least one
\* character that is not a slash.
UserSegmentAt(s, i) ==
    /\ i >= 1 /\ i + 16 <= Len(s)
    /\ SubSeq(s, i, i + 15) = "reddit.com/user/"
    /\ SubSeq(s, i + 16, i + 16) # "/"

\* The characters from j up to the next slash (or the end of s).
UpToNextSlash(s, j) ==
    LET e == CHOOSE e \in j..Len(s) :
                 /\ \A m \in j..e : SubSeq(s, m, m) # "/"
                 /\ e = Len(s) \/ SubSeq(s, e + 1, e + 1) = "/"
    IN  SubSeq(s, j, e)

\* C9: after main has read the line, if it contains reddit.com/user/<name>
\* the username is exactly <name>, the characters after the first such
\* reddit.com/user/ up to the next slash, and the run goes on; if it does not,
\* the username is None and the run has ended with status 1 before any fetch.
C9_ExtractUsername ==
    pc # "main" =>
        IF \E i \in 1..Len(url) : UserSegmentAt(url, i)
        THEN LET first == CHOOSE i \in 1..Len(url) :
                              /\ UserSegmentAt(url, i)
                              /\ \A h \in 1..(i - 1) : ~UserSegmentAt(url, h)
             IN  /\ username = Some(UpToNextSlash(url, first + 16))
                 /\ pc = "get_user_data"
        ELSE /\ username = None
             /\ pc = "exited" /\ exit_code = Some(1)
             /\ calls = <<"extract">>

\* A line with an empty segment before the real one: the name is taken from
\* the first occurrence that has one.
C9_Witness ==
    /\ url = "reddit.com/user//reddit.com/user/bob"
    /\ username = Some("bob")
    /\ pc = "get_user_data"

-----------------------------------------------------------------------------
(* C10 *)

\* C10: the output file is opened for writing only in a run whose URL
\* matched, whose fetch returned at least one item and whose completion
\* returned a non-empty text; while it has not been opened the directory is
\* as it was before the run; and a run whose completion returned None or an
\* empty text prints the failure message and ends with status 0.
C10_FileWrittenOnlyOnSuccess ==
    /\ Has(calls, "write") =>
          /\ username # None /\ username # Some("")
          /\ main_posts # <<>> \/ main_comments # <<>>
          /\ persona # None /\ persona # Some("")
    /\ ~Has(calls, "write") => files \in InitialFiles
    /\ (pc = "exited" /\ Has(calls, "completion") /\ exit_edge = "end_failed") =>
          /\ persona \in {None, Some("")}
          /\ Has(stdout, "failed_to_generate")
          /\ exit_code = Some(0)
    /\ (pc = "exited" /\ Has(calls, "completion") /\ persona \in {None, Some("")}) =>
          exit_edge \in {"end_failed", "openai_error", "unexpected_error"}

\* The completion returned an empty text: the old file is untouched, the
\* failure message is printed and the status is 0.
C10_Witness ==
    /\ pc = "exited" /\ persona = Some("")
    /\ Has(stdout, "failed_to_generate") /\ exit_code = Some(0)
    /\ ~Has(calls, "write")
    /\ files = ("kojied_persona.txt" :> "OLD PERSONA")

=============================================================================
